---------------------------- MODULE Spec2Model ----------------------------
(***************************************************************************)
(* Model of fuse-badsector-simulator.c: the bad-sector list built from the *)
(* -s option, the reserve-sector count, and the read/write FUSE callbacks  *)
(* that consult and repair the list.                                       *)
(*                                                                         *)
(* Machine integers.  off_t and size_t are 64 bits wide; TLC's integers    *)
(* are narrower, so a 64-bit value v is represented by the integer r with  *)
(* r = v when v is small and r = v - 2^64 when v is within a small         *)
(* distance of 2^64 (the two's-complement reading).  Sums and differences  *)
(* of such values are the same in both readings; unsigned comparisons are  *)
(* spelled out (ULess, UPositive).                                         *)
(***************************************************************************)
EXTENDS Integers, Sequences, FiniteSets, TLC

(***************************************************************************)
(* Program constant and bounds of the model.                               *)
(***************************************************************************)
sector_size == 512

\* longest -s option string that is tried when the string is arbitrary
MaxRawLen == 3
\* longest -s option string that is tried when it follows the grammar
MaxSpecLen == 5
\* largest -r option value that is tried
MaxReserve == 2
\* size of the largest backing file, in sectors
MaxDiskSectors == 2

HalfSector == sector_size \div 2

\* characters an option string is made of; NUL is the string terminator
Digits == {"0", "1", "2"}
SpecChars == Digits \cup {",", "-"}
Chars == SpecChars \cup {"x"}
NUL == "NUL"
\* the null char pointer: a value that is no string over Chars
NULL == << "NULL" >>

RECURSIVE StringsOfLen(_, _)
StringsOfLen(alphabet, n) ==
    IF n = 0 THEN {<< >>}
    ELSE {Append(s, c) : s \in StringsOfLen(alphabet, n - 1), c \in alphabet}

\* every string over Chars, the empty one included
RawStrings == UNION {StringsOfLen(Chars, n) : n \in 0..MaxRawLen}

(***************************************************************************)
(* strtoul(nptr, &endptr, 10) on string s from position p (1-based).       *)
(* An optional sign, then decimal digits.  With no digit the value is 0    *)
(* and endptr = nptr.  A leading '-' negates the value (as an unsigned     *)
(* long, i.e. 2^64 - n, which the off_t it is stored in reads as -n).      *)
(***************************************************************************)
CharAt(s, p) == IF p >= 1 /\ p <= Len(s) THEN s[p] ELSE NUL

DigitVal(c) ==
    CASE c = "0" -> 0 [] c = "1" -> 1 [] c = "2" -> 2 [] c = "3" -> 3
      [] c = "4" -> 4 [] c = "5" -> 5 [] c = "6" -> 6 [] c = "7" -> 7
      [] c = "8" -> 8 [] c = "9" -> 9

IsDigit(c) == c \in {"0", "1", "2", "3", "4", "5", "6", "7", "8", "9"}

RECURSIVE ScanDigits(_, _, _)
ScanDigits(s, p, acc) ==
    IF IsDigit(CharAt(s, p))
    THEN ScanDigits(s, p + 1, acc * 10 + DigitVal(CharAt(s, p)))
    ELSE [val |-> acc, end |-> p]

strtoul_SkipsBadChar(s, p) ==
    LET neg == CharAt(s, p) = "-"
        q   == IF neg THEN p + 1 ELSE p
        d   == ScanDigits(s, q, 0)
    IN  IF d.end = q THEN [val |-> 0, end |-> p + 1]
        ELSE [val |-> IF neg THEN 0 - d.val ELSE d.val, end |-> d.end]

strtoul(s, p) ==
    LET neg == CharAt(s, p) = "-"
        q   == IF neg THEN p + 1 ELSE p
        d   == ScanDigits(s, q, 0)
    IN  IF d.end = q THEN [val |-> 0, end |-> p]
        ELSE [val |-> IF neg THEN 0 - d.val ELSE d.val, end |-> d.end]

(***************************************************************************)
(* get_sector_count: the first parsing pass.  The result is a size_t; a    *)
(* negative integer here stands for the wrapped value 2^64 + result.       *)
(***************************************************************************)
RECURSIVE get_sector_count(_, _)
get_sector_count(s, p) ==
    LET t == strtoul(s, p)
        first_sector == t.val
        sector_end == t.end
    IN  IF CharAt(s, sector_end) = ","
        THEN 1 + get_sector_count(s, sector_end + 1)
        ELSE IF CharAt(s, sector_end) = "-"
        THEN LET u == strtoul(s, sector_end + 1)
                 last_sector == u.val
                 real_end == u.end
                 sector_count == last_sector - first_sector + 1
             IN  IF CharAt(s, real_end) = ","
                 THEN sector_count + get_sector_count(s, real_end + 1)
                 ELSE sector_count
        ELSE 1

(***************************************************************************)
(* add_bad_sectors: the second parsing pass.  The result is the sequence   *)
(* of stores sector_array[idx] = val it performs, in program order, with   *)
(* idx relative to the start of the malloc'ed array (base is the offset    *)
(* of the sector_array argument of this call).                             *)
(***************************************************************************)
RangeStores_FromFirst(base, first_sector, last_sector) ==
    [k \in 1..(IF last_sector > first_sector THEN last_sector - first_sector ELSE 0)
        |-> [idx |-> base + k, val |-> first_sector + k - 1]]

RangeStores(base, first_sector, last_sector) ==
    [k \in 1..(IF last_sector > first_sector THEN last_sector - first_sector ELSE 0)
        |-> [idx |-> base + k, val |-> first_sector + k]]

RECURSIVE add_bad_sectors(_, _, _)
add_bad_sectors(s, p, base) ==
    LET t == strtoul(s, p)
        first_sector == t.val
        sector_end == t.end
        head == << [idx |-> base, val |-> first_sector] >>
    IN  IF CharAt(s, sector_end) = ","
        THEN head \o add_bad_sectors(s, sector_end + 1, base + 1)
        ELSE IF CharAt(s, sector_end) = "-"
        THEN LET u == strtoul(s, sector_end + 1)
                 last_sector == u.val
                 real_end == u.end
                 body == head \o RangeStores(base, first_sector, last_sector)
             IN  IF CharAt(s, real_end) = ","
                 THEN body \o add_bad_sectors(s, real_end + 1,
                                              base + last_sector - first_sector + 1)
                 ELSE body
        ELSE head


(***************************************************************************)
(* Program state.  heap maps the address of every live malloc'ed block to  *)
(* the array it holds; bad_sectors is the global pointer, an address.      *)
(* st_size is the size of the backing file, which belongs to the           *)
(* environment.  thread holds the position and locals of each FUSE worker  *)
(* thread inside a callback.  last records the most recent completed       *)
(* callback, session the values at construction and the repairs made       *)
(* since; neither is read by the program.                                  *)
(***************************************************************************)
VARIABLES phase, heap, bad_sectors, bad_sector_count, reserve_sectors,
          disk_size, st_size, thread, last, session

vars == << phase, heap, bad_sectors, bad_sector_count, reserve_sectors,
           disk_size, st_size, thread, last, session >>

\* the NULL pointer
NullAddress == 0

\* content of a slot nothing has been stored to: a value no sector number
\* of the model takes, and one a comparison may find equal to anything
Uninit == -2147483647

(***************************************************************************)
(* Unsigned comparisons on the two's-complement representatives.           *)
(***************************************************************************)
ULess(a, b) ==
    IF (a >= 0) = (b >= 0) THEN a < b ELSE a >= 0

UPositive_OrZero(a) == a >= 0

UPositive(a) == a # 0

(***************************************************************************)
(* The allocator.  malloc returns the lowest address that is not live,     *)
(* with n slots none of which has been stored to; free ends the block.     *)
(***************************************************************************)
Alloc(h) ==
    CHOOSE a \in 1..(Cardinality(DOMAIN h) + 1) :
        a \notin DOMAIN h /\ \A b \in 1..(a - 1) : b \in DOMAIN h

malloc(n) == [k \in 1..n |-> Uninit]

free(h, a) == [b \in DOMAIN h \ {a} |-> h[b]]

\* memcpy(dst + doff, src + soff, n * sizeof(off_t)): the slots of dst it
\* stores to; what it reads from outside src is indeterminate
memcpy(dst, doff, src, soff, n) ==
    [k \in 1..Len(dst) |->
        IF k - 1 >= doff /\ k - 1 < doff + n
        THEN IF k - doff + soff \in 1..Len(src) THEN src[k - doff + soff]
             ELSE Uninit
        ELSE dst[k]]

(***************************************************************************)
(* build_bad_sector_list.  The outcomes of                                 *)
(*   bad_sector_count = get_sector_count(s);                               *)
(*   bad_sectors = malloc(bad_sector_count * sizeof(off_t));               *)
(*   add_bad_sectors(s, bad_sectors);                                      *)
(* When every store lands inside the allocation the outcome is the array   *)
(* the stores leave.  A count that wrapped asks malloc for more than the   *)
(* address space holds: malloc returns NULL and the first store faults.    *)
(* Otherwise a store outside the allocation is undefined behaviour: the    *)
(* process either dies or goes on with the stores that were in bounds.     *)
(***************************************************************************)
StoresInBounds(stores, count) ==
    \A k \in 1..Len(stores) : stores[k].idx >= 0 /\ stores[k].idx < count

ArrayAfter(stores, count) ==
    [i \in 1..count |->
        LET hits == {k \in 1..Len(stores) : stores[k].idx = i - 1}
        IN  IF hits = {} THEN Uninit
            ELSE stores[CHOOSE k \in hits : \A j \in hits : j <= k].val]

Built(arr, count) ==
    [phase |-> "serving", heap |-> (1 :> arr), bad_sectors |-> 1,
     bad_sector_count |-> count]

NotBuilt ==
    [phase |-> "serving", heap |-> << >>, bad_sectors |-> NullAddress,
     bad_sector_count |-> 0]

Crashed ==
    [phase |-> "crashed", heap |-> << >>, bad_sectors |-> NullAddress,
     bad_sector_count |-> 0]

build_bad_sector_list(sector_list) ==
    IF sector_list = NULL THEN {NotBuilt}
    ELSE LET count == get_sector_count(sector_list, 1)
             stores == add_bad_sectors(sector_list, 1, 0)
         IN  IF count < 0 THEN {Crashed}
             ELSE IF StoresInBounds(stores, count)
             THEN {Built(ArrayAfter(stores, count), count)}
             ELSE {Crashed, Built(ArrayAfter(stores, count), count)}

(***************************************************************************)
(* The fault state the callbacks work on, as one value.                    *)
(***************************************************************************)
Store(h, ptr, count, reserve) ==
    [heap |-> h, bad_sectors |-> ptr, bad_sector_count |-> count,
     reserve_sectors |-> reserve]

CurrentStore == Store(heap, bad_sectors, bad_sector_count, reserve_sectors)

\* the array the global pointer designates
Array(s) ==
    IF s.bad_sectors \in DOMAIN s.heap THEN s.heap[s.bad_sectors] ELSE << >>

\* index (0-based) of the first of the first count entries of arr equal to
\* sector, or -1: the loop  for (i = 0; i < count; i++) if (arr[i] == sector)
FirstIndexOf(arr, count, sector) ==
    LET hits == {i \in 0..(count - 1) : arr[i + 1] = sector}
    IN  IF hits = {} THEN -1
        ELSE CHOOSE i \in hits : \A j \in hits : i <= j

(***************************************************************************)
(* repair_bad_sector(sector), run to completion: the store it leaves and   *)
(* its return value.                                                       *)
(***************************************************************************)
RemoveEntry_KeepReserve(s, i) ==
    LET count == s.bad_sector_count - 1
        old_bad_sectors == s.bad_sectors
        fresh == Alloc(s.heap)
        h1 == (fresh :> malloc(count)) @@ s.heap
        h2 == [h1 EXCEPT ![fresh] = memcpy(@, 0, h1[old_bad_sectors], 0, i)]
        h3 == [h2 EXCEPT ![fresh] =
                  memcpy(@, i, h2[old_bad_sectors], i + 1, count - i)]
    IN  Store(free(h3, old_bad_sectors), fresh, count, s.reserve_sectors)

RemoveEntry(s, i) ==
    LET count == s.bad_sector_count - 1
        old_bad_sectors == s.bad_sectors
        fresh == Alloc(s.heap)
        h1 == (fresh :> malloc(count)) @@ s.heap
        h2 == [h1 EXCEPT ![fresh] = memcpy(@, 0, h1[old_bad_sectors], 0, i)]
        h3 == [h2 EXCEPT ![fresh] =
                  memcpy(@, i, h2[old_bad_sectors], i + 1, count - i)]
    IN  Store(free(h3, old_bad_sectors), fresh, count, s.reserve_sectors - 1)

repair_bad_sector_NoReserveCheck(s, sector) ==
    LET i == FirstIndexOf(Array(s), s.bad_sector_count, sector)
    IN  IF i >= 0
        THEN [store |-> RemoveEntry(s, i), ret |-> 0]
        ELSE [store |-> s, ret |-> -1]

repair_bad_sector(s, sector) ==
    LET i == FirstIndexOf(Array(s), s.bad_sector_count, sector)
    IN  IF UPositive(s.reserve_sectors) /\ i >= 0
        THEN [store |-> RemoveEntry(s, i), ret |-> 0]
        ELSE [store |-> s, ret |-> -1]

(***************************************************************************)
(* get_disk_size(): stat the file while the cached size is 0.              *)
(***************************************************************************)
get_disk_size == IF disk_size = 0 THEN st_size ELSE disk_size

\* size after the truncation of lines 221-225 / 258-262
ClampedSize_NoClamp(offset, size, len) == size

ClampedSize(offset, size, len) ==
    IF offset + size > len THEN len - offset ELSE size

FirstSector(offset) == offset \div sector_size

LastSector_Floor(offset, size) == (offset + size) \div sector_size

LastSector_OneMore(offset, size) ==
    (offset + size + sector_size - 1) \div sector_size + 1

LastSector(offset, size) == (offset + size + sector_size - 1) \div sector_size

(***************************************************************************)
(* The sector scan of read_callback: TRUE when some scanned sector equals  *)
(* one of the first bad_sector_count entries.                              *)
(***************************************************************************)
ReadScanHits_ExclusiveEnd(s, first_sector, last_sector) ==
    \E sector \in first_sector..(last_sector - 1) :
        FirstIndexOf(Array(s), s.bad_sector_count, sector) >= 0

ReadScanHits(s, first_sector, last_sector) ==
    \E sector \in first_sector..last_sector :
        FirstIndexOf(Array(s), s.bad_sector_count, sector) >= 0

(***************************************************************************)
(* The sector scan of write_callback from `sector` on.  For each sector    *)
(* the inner loop stops at the first matching entry: a successful repair   *)
(* breaks out of it, a failed one returns -1 with errno EIO.               *)
(***************************************************************************)
RECURSIVE WriteScan(_, _, _, _)
WriteScan(s, sector, last_sector, repaired) ==
    IF sector > last_sector
    THEN [store |-> s, fault |-> FALSE, repaired |-> repaired]
    ELSE IF FirstIndexOf(Array(s), s.bad_sector_count, sector) < 0
    THEN WriteScan(s, sector + 1, last_sector, repaired)
    ELSE LET r == repair_bad_sector(s, sector)
         IN  IF r.ret = 0
             THEN WriteScan(r.store, sector + 1, last_sector,
                            Append(repaired, sector))
             ELSE [store |-> s, fault |-> TRUE, repaired |-> repaired]

(***************************************************************************)
(* The backing store: pread returns the bytes the file holds from offset,  *)
(* pwrite extends the file as needed and returns size.                     *)
(***************************************************************************)
pread(size, offset) ==
    IF offset >= st_size THEN 0
    ELSE IF offset + size > st_size THEN st_size - offset ELSE size

pwrite(size, offset) == size

(***************************************************************************)
(* Inputs.                                                                 *)
(***************************************************************************)
DigitChar(n) == << "0", "1", "2", "3", "4", "5", "6", "7", "8", "9" >>[n + 1]

\* the -s option: absent, or any string over Chars
SectorListOptions == {NULL} \cup RawStrings

\* the grammar of the option: "" or terms N and N-M joined by ","; with
\* `ordered`, every range has N <= M
RECURSIVE GrammarFrom(_, _, _)
GrammarFrom(s, p, ordered) ==
    LET n == ScanDigits(s, p, 0)
        m == ScanDigits(s, n.end + 1, 0)
        range == CharAt(s, n.end) = "-"
        e == IF range THEN m.end ELSE n.end
    IN  /\ n.end > p
        /\ range => (m.end > n.end + 1 /\ (ordered => n.val <= m.val))
        /\ \/ CharAt(s, e) = NUL
           \/ CharAt(s, e) = "," /\ GrammarFrom(s, e + 1, ordered)

WellFormed(s) == s = << >> \/ GrammarFrom(s, 1, TRUE)

\* the grammar without the order of the bounds: every token a decimal
\* number, every range with both bounds, nothing after a term but ","
SyntaxOK(s) == s = << >> \/ GrammarFrom(s, 1, FALSE)

GrammarStrings ==
    {s \in UNION {StringsOfLen(SpecChars, n) : n \in 0..MaxSpecLen} :
        WellFormed(s)}

\* the values add_bad_sectors stores for a -s option
StoredValues(sector_list) ==
    IF sector_list = NULL THEN {}
    ELSE LET stores == add_bad_sectors(sector_list, 1, 0)
         IN  {stores[k].val : k \in 1..Len(stores)}

\* the -s options that follow the grammar and name only sectors a request
\* to the device can scan
DeviceSectorListOptions ==
    {o \in {NULL} \cup GrammarStrings : StoredValues(o) \subseteq 0..MaxDiskSectors}

\* the -r option: absent, or a one-digit number
ReserveOptions == {NULL} \cup {<< DigitChar(n) >> : n \in 0..MaxReserve}

\* sizes of the backing file: empty, one sector, ending inside a sector,
\* ending on a sector boundary
FileSizes == {0, sector_size, MaxDiskSectors * sector_size - HalfSector,
              MaxDiskSectors * sector_size}

\* request offsets reach past the end of the largest file
Offsets == {k * HalfSector : k \in 0..(2 * MaxDiskSectors + 1)}

\* request sizes: one byte, a sector
Sizes == {1, sector_size}

Threads == {"t1", "t2"}

Idle == [pc |-> "idle"]

NoIO == [call |-> "none", size |-> 0, offset |-> 0]

IO(call, size, offset) == [call |-> call, size |-> size, offset |-> offset]

\* the record of a completed callback: its arguments and result, the
\* backing-store call it made, the store before it, the sectors it repaired
\* and the sectors repaired earlier in the session
Completed(op, arg, offset, size, ret, errno, io, pre, repaired) ==
    [op |-> op, arg |-> arg, offset |-> offset, size |-> size, ret |-> ret,
     errno |-> errno, io |-> io, pre |-> pre, repaired |-> repaired,
     earlier |-> session.repaired]

Max(a, b) == IF a >= b THEN a ELSE b

Range(seq) == {seq[k] : k \in 1..Len(seq)}

\* calls of stat beyond this many are not counted
MaxStats == 2

\* the session record after a call of get_disk_size(): one more call of
\* stat when the cached size is 0, and the size the request is checked
\* against
Measured(s) ==
    [s EXCEPT !.stats = IF disk_size = 0 /\ @ < MaxStats THEN @ + 1 ELSE @,
              !.lens = @ \cup {get_disk_size}]

(***************************************************************************)
(* The state before init_callback: the globals as statically initialised.  *)
(***************************************************************************)
Init ==
    /\ phase = "boot"
    /\ heap = << >>
    /\ bad_sectors = NullAddress
    /\ bad_sector_count = 0
    /\ reserve_sectors = 0
    /\ disk_size = 0
    /\ st_size \in FileSizes
    /\ thread = [t \in Threads |-> Idle]
    /\ session = [list0 |-> << >>, count0 |-> 0, reserve0 |-> 0,
                  repairs |-> 0, repaired |-> {}, entered |-> 0,
                  stats |-> 0, lens |-> {}]
    /\ last = Completed("none", NULL, 0, 0, 0, "OK", NoIO, CurrentStore, << >>)

(***************************************************************************)
(* init_callback: reserve_sectors from the -r option, the list from -s.    *)
(***************************************************************************)
ReserveFromOption(opt) == IF opt = NULL THEN 0 ELSE strtoul(opt, 1).val

init_callback(sector_list, reserve_opt) ==
    /\ phase = "boot"
    /\ \E out \in build_bad_sector_list(sector_list) :
        /\ phase' = out.phase
        /\ heap' = out.heap
        /\ bad_sectors' = out.bad_sectors
        /\ bad_sector_count' = out.bad_sector_count
        /\ reserve_sectors' = ReserveFromOption(reserve_opt)
        /\ session' = [list0 |-> Array(out),
                       count0 |-> out.bad_sector_count,
                       reserve0 |-> ReserveFromOption(reserve_opt),
                       repairs |-> 0, repaired |-> {}, entered |-> 0,
                       stats |-> 0, lens |-> {}]
        /\ last' = Completed("init", sector_list, 0, 0, 0, "OK", NoIO,
                             CurrentStore, << >>)
    /\ UNCHANGED << disk_size, st_size, thread >>

(***************************************************************************)
(* read_callback(path = filepath, size, offset), run to completion.        *)
(***************************************************************************)
ReadResult(s, len, offset, size) ==
    IF ~ULess(offset, len)
    THEN [ret |-> 0, errno |-> "OK", io |-> NoIO]
    ELSE LET n == ClampedSize(offset, size, len)
         IN  IF ReadScanHits(s, FirstSector(offset), LastSector(offset, n))
             THEN [ret |-> -1, errno |-> "EIO", io |-> NoIO]
             ELSE [ret |-> pread(n, offset), errno |-> "OK",
                   io |-> IO("pread", n, offset)]

read_callback_Repairing(offset, size) ==
    /\ phase = "serving"
    /\ \A t \in Threads : thread[t] = Idle
    /\ LET len == get_disk_size
           r == ReadResult(CurrentStore, len, offset, size)
           w == IF ULess(offset, len)
                THEN WriteScan(CurrentStore, FirstSector(offset),
                               LastSector(offset, ClampedSize(offset, size, len)),
                               << >>).store
                ELSE CurrentStore
       IN  /\ disk_size' = len
           /\ heap' = w.heap
           /\ bad_sectors' = w.bad_sectors
           /\ bad_sector_count' = w.bad_sector_count
           /\ reserve_sectors' = w.reserve_sectors
           /\ last' = Completed("read", NULL, offset, size, r.ret, r.errno,
                                r.io, CurrentStore, << >>)
    /\ session' = Measured(session)
    /\ UNCHANGED << phase, st_size, thread >>

read_callback(offset, size) ==
    /\ phase = "serving"
    /\ \A t \in Threads : thread[t] = Idle
    /\ LET len == get_disk_size
           r == ReadResult(CurrentStore, len, offset, size)
       IN  /\ disk_size' = len
           /\ last' = Completed("read", NULL, offset, size, r.ret, r.errno,
                                r.io, CurrentStore, << >>)
    /\ session' = Measured(session)
    /\ UNCHANGED << phase, heap, bad_sectors, bad_sector_count,
                    reserve_sectors, st_size, thread >>

(***************************************************************************)
(* write_callback(path = filepath, size, offset), run to completion.       *)
(***************************************************************************)
WriteResult_BoundOffByOne(s, len, offset, size) ==
    IF ~ULess(offset, len + 1)
    THEN [store |-> s, ret |-> 0, errno |-> "OK", io |-> NoIO,
          repaired |-> << >>]
    ELSE LET n == ClampedSize(offset, size, len)
             w == WriteScan(s, FirstSector(offset), LastSector(offset, n), << >>)
         IN  IF w.fault
             THEN [store |-> w.store, ret |-> -1, errno |-> "EIO", io |-> NoIO,
                   repaired |-> w.repaired]
             ELSE [store |-> w.store, ret |-> pwrite(n, offset), errno |-> "OK",
                   io |-> IO("pwrite", n, offset), repaired |-> w.repaired]

WriteResult(s, len, offset, size) ==
    IF ~ULess(offset, len)
    THEN [store |-> s, ret |-> 0, errno |-> "OK", io |-> NoIO,
          repaired |-> << >>]
    ELSE LET n == ClampedSize(offset, size, len)
             w == WriteScan(s, FirstSector(offset), LastSector(offset, n), << >>)
         IN  IF w.fault
             THEN [store |-> w.store, ret |-> -1, errno |-> "EIO", io |-> NoIO,
                   repaired |-> w.repaired]
             ELSE [store |-> w.store, ret |-> pwrite(n, offset), errno |-> "OK",
                   io |-> IO("pwrite", n, offset), repaired |-> w.repaired]

write_callback(offset, size) ==
    /\ phase = "serving"
    /\ \A t \in Threads : thread[t] = Idle
    /\ LET len == get_disk_size
           r == WriteResult(CurrentStore, len, offset, size)
       IN  /\ disk_size' = len
           /\ heap' = r.store.heap
           /\ bad_sectors' = r.store.bad_sectors
           /\ bad_sector_count' = r.store.bad_sector_count
           /\ reserve_sectors' = r.store.reserve_sectors
           /\ st_size' = IF r.io.call = "pwrite"
                         THEN Max(st_size, r.io.offset + r.io.size)
                         ELSE st_size
           /\ session' = [Measured(session) EXCEPT
                            !.repairs = @ + Len(r.repaired),
                            !.repaired = @ \cup Range(r.repaired)]
           /\ last' = Completed("write", NULL, offset, size, r.ret, r.errno,
                                r.io, CurrentStore, r.repaired)
    /\ UNCHANGED << phase, thread >>

(***************************************************************************)
(* main: fuse_main mounts and calls init_callback once, with the options   *)
(* fuse_opt_parse stored.                                                  *)
(***************************************************************************)
main(sector_lists) ==
    /\ phase = "boot"
    /\ \E sector_list \in sector_lists, reserve_opt \in ReserveOptions :
          init_callback(sector_list, reserve_opt)

(***************************************************************************)
(* Sequential serving: construction from an option that names sectors of   *)
(* the device, then reads and writes one at a time.                        *)
(***************************************************************************)
Next ==
    \/ main(DeviceSectorListOptions)
    \/ \E offset \in Offsets, size \in Sizes : read_callback(offset, size)
    \/ \E offset \in Offsets, size \in Sizes : write_callback(offset, size)

Spec == Init /\ [][Next]_vars

(***************************************************************************)
(* repair_bad_sector called on its own, for any sector, between requests.  *)
(***************************************************************************)
repair_call(sector) ==
    /\ phase = "serving"
    /\ \A t \in Threads : thread[t] = Idle
    /\ LET r == repair_bad_sector(CurrentStore, sector)
       IN  /\ heap' = r.store.heap
           /\ bad_sectors' = r.store.bad_sectors
           /\ bad_sector_count' = r.store.bad_sector_count
           /\ reserve_sectors' = r.store.reserve_sectors
           /\ session' = IF r.ret = 0
                         THEN [session EXCEPT !.repairs = @ + 1,
                                              !.repaired = @ \cup {sector}]
                         ELSE session
           /\ last' = Completed("repair", NULL, sector, 0, r.ret, "OK", NoIO,
                                CurrentStore,
                                IF r.ret = 0 THEN << sector >> ELSE << >>)
    /\ UNCHANGED << phase, disk_size, st_size, thread >>

NextRepair ==
    \/ Next
    \/ \E sector \in 0..(MaxDiskSectors + 1) : repair_call(sector)

SpecRepair == Init /\ [][NextRepair]_vars

(***************************************************************************)
(* Construction alone, from every option the grammar accepts: terms N and  *)
(* N-M with N <= M joined by ",", of up to MaxSpecLen characters.          *)
(***************************************************************************)
NextParse == main({NULL} \cup GrammarStrings)

SpecParse == Init /\ [][NextParse]_vars

(***************************************************************************)
(* Construction alone, from every option string.                           *)
(***************************************************************************)
NextBoot == main(SectorListOptions)

SpecBoot == Init /\ [][NextBoot]_vars

(***************************************************************************)
(* Multi-threaded serving.  fuse_main never sees a -s of its own (the      *)
(* option table takes "-s %s" for the sector list), so libfuse runs the    *)
(* callbacks on worker threads, and the program holds no lock: the         *)
(* statements of read_callback, write_callback and repair_bad_sector       *)
(* interleave.  Each action below is one access of thread t to the shared  *)
(* variables, together with the local computation that follows it.         *)
(***************************************************************************)
\* reads at most this many slots past the end of a block reach mapped
\* memory of indeterminate content; reads further out fault
MaxOverrun == 1

\* the options of at most MaxRawLen characters whose list names no sector
\* twice
ConcSectorListOptions ==
    {o \in DeviceSectorListOptions :
        o # NULL => /\ Len(o) <= MaxRawLen
                    /\ Cardinality(StoredValues(o)) = Len(add_bad_sectors(o, 1, 0))}

\* sector-aligned requests of one byte
ConcOffsets == {k * sector_size : k \in 0..(MaxDiskSectors - 1)}

ConcSizes == {1}

\* the requests the worker threads take up in one session
MaxRequests == 2

\* the block at address a, empty when a is not live
Block(h, a) == IF a \in DOMAIN h THEN h[a] ELSE << >>

\* bad_sectors[k] as a thread reads it now
Entry(k) ==
    LET block == Block(heap, bad_sectors)
    IN  IF k < Len(block) THEN block[k + 1] ELSE Uninit

EntryFaults(k) ==
    \/ bad_sectors = NullAddress
    \/ k >= Len(Block(heap, bad_sectors)) + MaxOverrun

\* the outcomes of  sector == bad_sectors[k]
Compare(k, sector) ==
    IF Entry(k) = Uninit THEN BOOLEAN ELSE {Entry(k) = sector}

Running(t, pc) == phase = "serving" /\ thread[t].pc = pc

\* the callback of thread t returns
Return(t, ret, errno, io) ==
    /\ thread' = [thread EXCEPT ![t] = Idle]
    /\ last' = Completed(thread[t].op, NULL, thread[t].offset, thread[t].size,
                         ret, errno, io, thread[t].pre, thread[t].repaired)

\* lines 212-228 and 249-265: the bounds check, the clamp, the sector range
enter(t, op, offset, size) ==
    /\ Running(t, "idle")
    /\ session.entered < MaxRequests
    /\ session' = [Measured(session) EXCEPT !.entered = @ + 1]
    /\ LET len == get_disk_size
       IN  /\ disk_size' = len
           /\ IF ~ULess(offset, len)
              THEN /\ last' = Completed(op, NULL, offset, size, 0, "OK", NoIO,
                                        CurrentStore, << >>)
                   /\ UNCHANGED thread
              ELSE /\ thread' = [thread EXCEPT ![t] =
                        [pc |-> "scan", op |-> op, offset |-> offset,
                         size |-> size, pre |-> CurrentStore,
                         sector |-> FirstSector(offset),
                         last_sector |->
                             LastSector(offset, ClampedSize(offset, size, len)),
                         i |-> 0, j |-> 0, old_bad_sectors |-> NullAddress,
                         repaired |-> << >>]]
                   /\ UNCHANGED last
    /\ UNCHANGED << phase, heap, bad_sectors, bad_sector_count,
                    reserve_sectors, st_size >>

\* lines 230-231 and 267-268: sector <= last_sector, i < bad_sector_count
scan_test(t) ==
    /\ Running(t, "scan")
    /\ thread' = [thread EXCEPT ![t] =
          IF @.sector > @.last_sector THEN [@ EXCEPT !.pc = "io"]
          ELSE IF ULess(@.i, bad_sector_count)
          THEN [@ EXCEPT !.pc = "compare"]
          ELSE [@ EXCEPT !.sector = @ + 1, !.i = 0]]
    /\ UNCHANGED << phase, heap, bad_sectors, bad_sector_count,
                    reserve_sectors, disk_size, st_size, session, last >>

\* lines 232-236 and 269-270: sector == bad_sectors[i]
scan_compare(t) ==
    /\ Running(t, "compare")
    /\ ~EntryFaults(thread[t].i)
    /\ \E hit \in Compare(thread[t].i, thread[t].sector) :
          IF ~hit
          THEN /\ thread' = [thread EXCEPT ![t].pc = "scan", ![t].i = @ + 1]
               /\ UNCHANGED last
          ELSE IF thread[t].op = "read"
          THEN Return(t, -1, "EIO", NoIO)
          ELSE /\ thread' = [thread EXCEPT ![t].pc = "reserve"]
               /\ UNCHANGED last
    /\ UNCHANGED << phase, heap, bad_sectors, bad_sector_count,
                    reserve_sectors, disk_size, st_size, session >>

\* line 140: reserve_sectors > 0; without reserve repair_bad_sector returns
\* -1 and write_callback returns -1 with errno EIO (lines 271-275)
repair_reserve_check(t) ==
    /\ Running(t, "reserve")
    /\ IF UPositive(reserve_sectors)
       THEN /\ thread' = [thread EXCEPT ![t].pc = "repair_scan", ![t].j = 0]
            /\ UNCHANGED last
       ELSE Return(t, -1, "EIO", NoIO)
    /\ UNCHANGED << phase, heap, bad_sectors, bad_sector_count,
                    reserve_sectors, disk_size, st_size, session >>

\* line 143: i < bad_sector_count; the loop running out returns -1
repair_test(t) ==
    /\ Running(t, "repair_scan")
    /\ IF ULess(thread[t].j, bad_sector_count)
       THEN /\ thread' = [thread EXCEPT ![t].pc = "repair_compare"]
            /\ UNCHANGED last
       ELSE Return(t, -1, "EIO", NoIO)
    /\ UNCHANGED << phase, heap, bad_sectors, bad_sector_count,
                    reserve_sectors, disk_size, st_size, session >>

\* line 144: bad_sectors[i] == sector
repair_compare(t) ==
    /\ Running(t, "repair_compare")
    /\ ~EntryFaults(thread[t].j)
    /\ \E hit \in Compare(thread[t].j, thread[t].sector) :
          thread' = [thread EXCEPT ![t] =
              IF hit THEN [@ EXCEPT !.pc = "decrement_count"]
              ELSE [@ EXCEPT !.pc = "repair_scan", !.j = @ + 1]]
    /\ UNCHANGED << phase, heap, bad_sectors, bad_sector_count,
                    reserve_sectors, disk_size, st_size, session, last >>

\* line 149: bad_sector_count--
repair_decrement_count(t) ==
    /\ Running(t, "decrement_count")
    /\ bad_sector_count' = bad_sector_count - 1
    /\ thread' = [thread EXCEPT ![t].pc = "save_old"]
    /\ UNCHANGED << phase, heap, bad_sectors, reserve_sectors, disk_size,
                    st_size, session, last >>

\* line 150: old_bad_sectors = bad_sectors
repair_save_old(t) ==
    /\ Running(t, "save_old")
    /\ thread' = [thread EXCEPT ![t].pc = "malloc",
                                ![t].old_bad_sectors = bad_sectors]
    /\ UNCHANGED << phase, heap, bad_sectors, bad_sector_count,
                    reserve_sectors, disk_size, st_size, session, last >>

\* line 151: bad_sectors = malloc(bad_sector_count * sizeof(off_t)); a count
\* that wrapped asks for more than there is and gets NULL
repair_malloc(t) ==
    /\ Running(t, "malloc")
    /\ IF bad_sector_count < 0
       THEN bad_sectors' = NullAddress /\ UNCHANGED heap
       ELSE /\ bad_sectors' = Alloc(heap)
            /\ heap' = (Alloc(heap) :> malloc(bad_sector_count)) @@ heap
    /\ thread' = [thread EXCEPT ![t].pc = "memcpy_head"]
    /\ UNCHANGED << phase, bad_sector_count, reserve_sectors, disk_size,
                    st_size, session, last >>

\* memcpy(bad_sectors + doff, old_bad_sectors + soff, n * sizeof(off_t)) by
\* thread t: it faults when n wrapped or bad_sectors is NULL, and may fault
\* when it stores past the end of the block
CopyFaults(doff, n) ==
    \/ n < 0
    \/ n > 0 /\ bad_sectors \notin DOMAIN heap

CopyMayFault(doff, n) ==
    \/ CopyFaults(doff, n)
    \/ n > 0 /\ doff + n > Len(Block(heap, bad_sectors))

Copy(t, doff, soff, n) ==
    IF n = 0 THEN heap
    ELSE [heap EXCEPT ![bad_sectors] =
             memcpy(@, doff, Block(heap, thread[t].old_bad_sectors), soff, n)]

\* line 152: memcpy(bad_sectors, old_bad_sectors, i * sizeof(off_t))
repair_memcpy_head(t) ==
    /\ Running(t, "memcpy_head")
    /\ ~CopyFaults(0, thread[t].j)
    /\ heap' = Copy(t, 0, 0, thread[t].j)
    /\ thread' = [thread EXCEPT ![t].pc = "memcpy_tail"]
    /\ UNCHANGED << phase, bad_sectors, bad_sector_count, reserve_sectors,
                    disk_size, st_size, session, last >>

\* lines 153-155: memcpy(bad_sectors + i, old_bad_sectors + i + 1,
\*                       (bad_sector_count - i) * sizeof(off_t))
repair_memcpy_tail(t) ==
    /\ Running(t, "memcpy_tail")
    /\ ~CopyFaults(thread[t].j, bad_sector_count - thread[t].j)
    /\ heap' = Copy(t, thread[t].j, thread[t].j + 1,
                    bad_sector_count - thread[t].j)
    /\ thread' = [thread EXCEPT ![t].pc = "free"]
    /\ UNCHANGED << phase, bad_sectors, bad_sector_count, reserve_sectors,
                    disk_size, st_size, session, last >>

\* line 156: free(old_bad_sectors); freeing a block that is not live either
\* aborts the process or goes unnoticed
repair_free(t) ==
    /\ Running(t, "free")
    /\ heap' = free(heap, thread[t].old_bad_sectors)
    /\ thread' = [thread EXCEPT ![t].pc = "decrement_reserve"]
    /\ UNCHANGED << phase, bad_sectors, bad_sector_count, reserve_sectors,
                    disk_size, st_size, session, last >>

\* lines 157-159 and 270-271: reserve_sectors--, ret = 0, and the break out
\* of the inner loop of write_callback
repair_decrement_reserve(t) ==
    /\ Running(t, "decrement_reserve")
    /\ reserve_sectors' = reserve_sectors - 1
    /\ session' = [session EXCEPT !.repairs = @ + 1,
                                  !.repaired = @ \cup {thread[t].sector}]
    /\ thread' = [thread EXCEPT ![t] =
          [@ EXCEPT !.pc = "scan", !.sector = @ + 1, !.i = 0,
                    !.repaired = Append(@, thread[t].sector)]]
    /\ UNCHANGED << phase, heap, bad_sectors, bad_sector_count, disk_size,
                    st_size, last >>

\* lines 238 and 278: the request goes to the backing file
transfer(t) ==
    /\ Running(t, "io")
    /\ LET n == ClampedSize(thread[t].offset, thread[t].size, disk_size)
       IN  IF thread[t].op = "read"
           THEN /\ Return(t, pread(n, thread[t].offset), "OK",
                          IO("pread", n, thread[t].offset))
                /\ UNCHANGED st_size
           ELSE /\ Return(t, pwrite(n, thread[t].offset), "OK",
                          IO("pwrite", n, thread[t].offset))
                /\ st_size' = Max(st_size, thread[t].offset + n)
    /\ UNCHANGED << phase, heap, bad_sectors, bad_sector_count,
                    reserve_sectors, disk_size, session >>

\* the next statement of thread t can bring the process down
MayFault(t) ==
    \/ thread[t].pc = "compare" /\ EntryFaults(thread[t].i)
    \/ thread[t].pc = "repair_compare" /\ EntryFaults(thread[t].j)
    \/ thread[t].pc = "memcpy_head" /\ CopyMayFault(0, thread[t].j)
    \/ thread[t].pc = "memcpy_tail"
          /\ CopyMayFault(thread[t].j, bad_sector_count - thread[t].j)
    \/ thread[t].pc = "free"
          /\ thread[t].old_bad_sectors # NullAddress
          /\ thread[t].old_bad_sectors \notin DOMAIN heap

segfault(t) ==
    /\ phase = "serving"
    /\ MayFault(t)
    /\ phase' = "crashed"
    /\ UNCHANGED << heap, bad_sectors, bad_sector_count, reserve_sectors,
                    disk_size, st_size, thread, session, last >>

NextConc ==
    \/ main(ConcSectorListOptions)
    \/ \E t \in Threads, op \in {"read", "write"},
          offset \in ConcOffsets, size \in ConcSizes : enter(t, op, offset, size)
    \/ \E t \in Threads : scan_test(t)
    \/ \E t \in Threads : scan_compare(t)
    \/ \E t \in Threads : repair_reserve_check(t)
    \/ \E t \in Threads : repair_test(t)
    \/ \E t \in Threads : repair_compare(t)
    \/ \E t \in Threads : repair_decrement_count(t)
    \/ \E t \in Threads : repair_save_old(t)
    \/ \E t \in Threads : repair_malloc(t)
    \/ \E t \in Threads : repair_memcpy_head(t)
    \/ \E t \in Threads : repair_memcpy_tail(t)
    \/ \E t \in Threads : repair_free(t)
    \/ \E t \in Threads : repair_decrement_reserve(t)
    \/ \E t \in Threads : transfer(t)
    \/ \E t \in Threads : segfault(t)

\* the backing file holds MaxDiskSectors whole sectors
InitConc == Init /\ st_size = MaxDiskSectors * sector_size

SpecConc == InitConc /\ [][NextConc]_vars

(***************************************************************************)
(* Sequential serving while the environment changes the size of the        *)
(* backing file between requests.                                          *)
(***************************************************************************)
resize_backing_file(size) ==
    /\ phase = "serving"
    /\ \A t \in Threads : thread[t] = Idle
    /\ size # st_size
    /\ st_size' = size
    /\ UNCHANGED << phase, heap, bad_sectors, bad_sector_count,
                    reserve_sectors, disk_size, thread, last, session >>

NextResize ==
    \/ main(ConcSectorListOptions)
    \/ \E offset \in Offsets, size \in Sizes : read_callback(offset, size)
    \/ \E offset \in Offsets, size \in Sizes : write_callback(offset, size)
    \/ \E size \in FileSizes : resize_backing_file(size)

SpecResize == Init /\ [][NextResize]_vars

(***************************************************************************)
(* Vocabulary of the properties.                                           *)
(***************************************************************************)
\* the sectors a store holds as bad
BadSet(s) == {Array(s)[i] : i \in 1..s.bad_sector_count}

\* the device size the last request was checked against
DeviceSize == disk_size

\* the length of the last request after clamping to the device end
LastClamped == ClampedSize(last.offset, last.size, DeviceSize)

\* the sectors the last request scanned
LastScanned == FirstSector(last.offset)..LastSector(last.offset, LastClamped)

LastInDevice == last.offset < DeviceSize

Fault == last.ret = -1 /\ last.errno = "EIO"

\* C1: a read inside the device whose scanned range holds a bad sector
\* returns a device fault and pread is not called.
C1_ReadOfBadSectorFaults ==
    (last.op = "read" /\ LastInDevice
        /\ LastScanned \cap BadSet(last.pre) # {})
    => (Fault /\ last.io.call = "none")

C1_Witness ==
    /\ last.op = "read" /\ LastInDevice
    /\ LastScanned \cap BadSet(last.pre) # {}
    /\ Fault
    /\ \E t \in LastScanned : t \notin BadSet(last.pre)


\* the bad sectors the last request scanned
LastBadScanned == LastScanned \cap BadSet(last.pre)

\* the n lowest-numbered members of a set of sectors
Lowest(S, n) == {s \in S : Cardinality({u \in S : u < s}) < n}

\* C2: a write inside the device whose scanned range holds k bad sectors,
\* k <= reserve_sectors, succeeds: pwrite is called once with the clamped
\* size, none of the k sectors is bad afterwards, reserve_sectors went down
\* by exactly k, and the bad sectors outside the range are still bad.
C2_WriteRepairsWithinReserve ==
    (last.op = "write" /\ LastInDevice
        /\ Cardinality(LastBadScanned) <= last.pre.reserve_sectors)
    => /\ last.ret = LastClamped /\ last.errno = "OK"
       /\ last.io = IO("pwrite", LastClamped, last.offset)
       /\ BadSet(CurrentStore) \cap LastBadScanned = {}
       /\ reserve_sectors = last.pre.reserve_sectors - Cardinality(LastBadScanned)
       /\ BadSet(last.pre) \ LastScanned \subseteq BadSet(CurrentStore)

\* C3: a write whose scanned range holds more bad sectors than
\* reserve_sectors r returns a device fault without calling pwrite; exactly
\* the r lowest-numbered bad sectors of the range are repaired, every other
\* bad sector is still bad, and reserve_sectors is 0 afterwards.
C3_WriteBeyondReserveFaults ==
    (last.op = "write" /\ LastInDevice
        /\ Cardinality(LastBadScanned) > last.pre.reserve_sectors)
    => /\ Fault /\ last.io.call = "none"
       /\ BadSet(CurrentStore) =
            BadSet(last.pre) \ Lowest(LastBadScanned, last.pre.reserve_sectors)
       /\ reserve_sectors = 0


\* the array a with the entry at (0-based) index i left out
Without(a, i) == [k \in 1..(Len(a) - 1) |-> IF k <= i THEN a[k] ELSE a[k + 1]]

\* C4: repair_bad_sector on a sector that is not in the list, or with
\* reserve_sectors = 0, fails and changes neither the list, its count nor
\* reserve_sectors; it succeeds only for a listed sector with reserve left,
\* and then removes exactly one entry and takes exactly 1 from the reserve.
C4_RepairContract ==
    last.op = "repair" =>
        LET sector == last.offset
            pre == last.pre
        IN  /\ (sector \notin BadSet(pre) \/ pre.reserve_sectors = 0)
                => (last.ret # 0 /\ CurrentStore = pre)
            /\ last.ret = 0
                => /\ sector \in BadSet(pre) /\ pre.reserve_sectors > 0
                   /\ bad_sector_count = pre.bad_sector_count - 1
                   /\ reserve_sectors = pre.reserve_sectors - 1
                   /\ \E i \in 0..(pre.bad_sector_count - 1) :
                        /\ Array(pre)[i + 1] = sector
                        /\ Array(CurrentStore) = Without(Array(pre), i)

C4_Witness ==
    /\ last.op = "repair" /\ last.ret # 0
    /\ last.offset \in BadSet(last.pre)
    /\ last.pre.reserve_sectors = 0
    /\ session.repairs > 0

\* every thread is between requests
Quiescent == \A t \in Threads : thread[t] = Idle

\* C5: under every interleaving of two writes that scan the same bad
\* sector, at most one repair of that sector succeeds: each successful
\* repair is of a sector no earlier repair removed, and once the writes
\* have returned reserve_sectors and bad_sector_count are down by exactly
\* one for each repaired sector.
C5_SectorRepairedOnce ==
    phase = "serving" =>
        /\ session.repairs = Cardinality(session.repaired)
        /\ Quiescent =>
              /\ reserve_sectors =
                    session.reserve0 - Cardinality(session.repaired)
              /\ bad_sector_count =
                    session.count0 - Cardinality(session.repaired)

\* the statements of repair_bad_sector after its search has found the sector
Removing ==
    {"decrement_count", "save_old", "malloc", "memcpy_head", "memcpy_tail",
     "free", "decrement_reserve"}

\* sector b was in the list at construction and no repair has found it
BadThroughout(b) ==
    /\ b \in Range(session.list0)
    /\ b \notin session.repaired
    /\ \A t \in Threads :
          thread[t].pc \in Removing => thread[t].sector # b

\* C6: a read that runs while a write repairs sector a sees a consistent
\* list: when its scanned range holds a sector b # a that is bad before
\* and after the repair, it returns a device fault and is not handed to
\* pread, wherever inside repair_bad_sector the read's steps fall.
C6_ReadSeesConsistentList ==
    (phase = "serving" /\ last.op = "read" /\ LastInDevice
        /\ \E b \in LastScanned : BadThroughout(b))
    => (Fault /\ last.io.call = "none")

\* C7: with N successful repairs since construction, reserve_sectors is its
\* value at construction minus N and the list holds N entries fewer; no
\* read or write raises either value, and reserve_sectors is never below 0,
\* also after a write that aborts in the middle of its scan.
C7_RepairAccounting ==
    phase = "serving" =>
        /\ reserve_sectors = session.reserve0 - session.repairs
        /\ bad_sector_count = session.count0 - session.repairs
        /\ Len(Array(CurrentStore)) = bad_sector_count
        /\ reserve_sectors >= 0
        /\ last.op \in {"read", "write"} =>
              /\ reserve_sectors <= last.pre.reserve_sectors
              /\ bad_sector_count <= last.pre.bad_sector_count

C7_Witness ==
    /\ last.op = "write" /\ Fault
    /\ Len(last.repaired) >= 1
    /\ session.repairs > Len(last.repaired)
    /\ bad_sector_count > 0

\* C8: once a write has repaired sector s, s is never bad again: a later
\* read or write whose scanned range holds s and no bad sector other than
\* repaired ones succeeds, the write without consuming reserve.  This for
\* every option the grammar accepts, lists that name a sector twice included.
C8_RepairedSectorStaysGood ==
    /\ session.repaired \cap BadSet(CurrentStore) = {}
    /\ (last.op \in {"read", "write"} /\ LastInDevice
          /\ last.earlier \cap LastScanned # {}
          /\ LastBadScanned \subseteq last.earlier)
       => (~Fault /\ reserve_sectors = last.pre.reserve_sectors)

\* C9: a read or write at offset >= device size returns 0, calls neither
\* pread nor pwrite, and leaves the list and reserve_sectors as they were.
C9_BeyondEndIsNoOp ==
    (last.op \in {"read", "write"} /\ ~LastInDevice)
    => /\ last.ret = 0 /\ last.errno = "OK"
       /\ last.io.call = "none"
       /\ CurrentStore = last.pre

C9_Witness ==
    /\ last.op = "write" /\ ~LastInDevice
    /\ DeviceSize > 0
    /\ last.offset = DeviceSize
    /\ FirstSector(last.offset) \in BadSet(last.pre)
    /\ reserve_sectors > 0
    /\ last.ret = 0


\* the option init_callback was given
LastOption == last.arg

Malformed == last.op = "init" /\ LastOption # NULL /\ ~SyntaxOK(LastOption)

RECURSIVE LeadingValues(_, _)
LeadingValues(s, p) ==
    LET n == ScanDigits(s, p, 0)
    IN  IF CharAt(s, n.end) = ","
        THEN << n.val >> \o LeadingValues(s, n.end + 1)
        ELSE << n.val >>

C11_EmptySpecEmptyList ==
    (last.op = "init" /\ LastOption \in {NULL, << >>})
    => (phase = "serving" /\ bad_sector_count = 0
          /\ BadSet(CurrentStore) = {})

\* integer quotients, by their defining inequalities
FloorDiv(a, b) == CHOOSE q \in 0..a : q * b <= a /\ a < (q + 1) * b

CeilDiv(a, b) == CHOOSE q \in 0..a : (q - 1) * b < a /\ a <= q * b

\* the length of the last request cut to the end of the device
LastLength ==
    IF last.offset + last.size > DeviceSize THEN DeviceSize - last.offset
    ELSE last.size

\* firstSector .. lastSectorInclusive of the last request
LastRange ==
    FloorDiv(last.offset, sector_size)
        ..CeilDiv(last.offset + LastLength, sector_size)

Ascending(seq) == \A k \in 1..(Len(seq) - 1) : seq[k] < seq[k + 1]

\* C12: a request inside the device scans exactly the sectors
\* floor(offset / 512) .. ceil((offset + length) / 512), both ends
\* included, in ascending order, length being the clamped one: a read
\* faults exactly when one of them is bad, and a write repairs bad sectors
\* of that range only, in ascending order, none of them skipped up to the
\* sector it faults on.
C12_ScanRangeInclusive ==
    (last.op \in {"read", "write"} /\ LastInDevice) =>
        /\ last.op = "read" => (Fault <=> LastRange \cap BadSet(last.pre) # {})
        /\ last.op = "write" =>
              /\ Range(last.repaired) \subseteq LastRange \cap BadSet(last.pre)
              /\ Ascending(last.repaired)
              /\ ~Fault => LastRange \cap BadSet(last.pre) \subseteq Range(last.repaired)
              /\ Fault => \E s \in LastRange \cap BadSet(last.pre) :
                    \A u \in LastRange \cap BadSet(last.pre) :
                        u < s => u \in Range(last.repaired)

\* a write that ends inside a sector has repaired both ends of its range
C12_Witness ==
    /\ last.op = "write" /\ LastInDevice /\ ~Fault
    /\ (last.offset + LastLength) % sector_size # 0
    /\ Len(last.repaired) >= 2
    /\ last.repaired[1] = FloorDiv(last.offset, sector_size)
    /\ last.repaired[Len(last.repaired)]
         = CeilDiv(last.offset + LastLength, sector_size)

\* C13: a request with offset < device size and offset + length beyond it
\* is cut to device size - offset before the scan and before the call of
\* pread or pwrite, so no byte at or beyond the device size is asked of the
\* backing file; a write that ends exactly at the device size, with an
\* empty list, is not cut, succeeds and returns the full length.
C13_ClampToDeviceEnd ==
    (last.op \in {"read", "write"} /\ LastInDevice) =>
        /\ last.io.call # "none" =>
              /\ last.io.offset = last.offset
              /\ last.io.offset + last.io.size <= DeviceSize
        /\ last.offset + last.size > DeviceSize =>
              /\ last.io.call # "none" =>
                    last.io.size = DeviceSize - last.offset
              /\ last.op = "read" =>
                    (Fault <=> LastRange \cap BadSet(last.pre) # {})
              /\ Range(last.repaired) \subseteq LastRange
        /\ (last.op = "write" /\ last.offset + last.size = DeviceSize
              /\ BadSet(last.pre) = {}) =>
              /\ last.ret = last.size /\ last.errno = "OK"
              /\ last.io = IO("pwrite", last.size, last.offset)

\* a read cut to the device end that an uncut scan would have failed
C13_Witness ==
    /\ last.op = "read" /\ LastInDevice
    /\ last.offset + last.size > DeviceSize
    /\ last.io = IO("pread", DeviceSize - last.offset, last.offset)
    /\ CeilDiv(last.offset + last.size, sector_size) \in BadSet(last.pre)

\* C14: under concurrent writes that repair different bad sectors, the
\* number of successful repairs of a session never exceeds reserve_sectors
\* as configured at construction, and reserve_sectors never wraps below 0
\* (the wrapped value 2^64 - n is the integer -n here).
C14_RepairsWithinReserve ==
    (phase = "serving" /\ session.repairs = Cardinality(session.repaired))
    => /\ session.repairs <= session.reserve0
       /\ reserve_sectors >= 0

\* the sectors that hold a byte of the last request, cut to the device end
LastTouched ==
    FloorDiv(last.offset, sector_size)
        ..FloorDiv(last.offset + LastLength - 1, sector_size)

\* the sector after the one holding the last requested byte
LastNextSector == FloorDiv(last.offset + LastLength - 1, sector_size) + 1

LastAligned == (last.offset + LastLength) % sector_size = 0

\* C15: a request faults because of bad sector s only if s holds a byte of
\* the (cut) request, or offset + length is a multiple of the sector size
\* and s is the sector right after the last requested byte; when offset +
\* length is no such multiple, a request whose bytes all lie in good
\* sectors does not fault and consumes no reserve.
C15_FaultOnlyOnTouchedSector ==
    (last.op \in {"read", "write"} /\ LastInDevice) =>
        /\ Fault => \E s \in BadSet(last.pre) :
              \/ s \in LastTouched
              \/ LastAligned /\ s = LastNextSector
        /\ (~LastAligned /\ LastTouched \cap BadSet(last.pre) = {}) =>
              (~Fault /\ reserve_sectors = last.pre.reserve_sectors)

\* C15, what the callbacks do: the sector after the one holding the last
\* requested byte is scanned whether or not offset + length is a multiple
\* of the sector size.  A request faults only if a sector holding one of
\* its bytes, or that next sector, is bad, and a write consumes reserve
\* for such sectors only; a request for which none of them is bad does not
\* fault and consumes no reserve.
C15_FaultOnlyOnScannedSector ==
    (last.op \in {"read", "write"} /\ LastInDevice) =>
        /\ Fault => \E s \in BadSet(last.pre) :
              s \in LastTouched \cup {LastNextSector}
        /\ Range(last.repaired) \subseteq LastTouched \cup {LastNextSector}
        /\ (LastTouched \cup {LastNextSector}) \cap BadSet(last.pre) = {} =>
              (~Fault /\ reserve_sectors = last.pre.reserve_sectors)

\* a read of one byte of a good sector faults on the bad sector after it
C15_Witness ==
    /\ last.op = "read" /\ LastInDevice /\ Fault
    /\ ~LastAligned
    /\ LastTouched \cap BadSet(last.pre) = {}
    /\ LastNextSector \in BadSet(last.pre)

\* the sectors the terms of a well-formed option denote, in order: N for
\* a term N, the run N, N+1, ..., M for a term N-M
RECURSIVE Denoted(_, _)
Denoted(s, p) ==
    LET n == ScanDigits(s, p, 0)
        m == ScanDigits(s, n.end + 1, 0)
        range == CharAt(s, n.end) = "-"
        term == IF range THEN [k \in 1..(m.val - n.val + 1) |-> n.val + k - 1]
                ELSE << n.val >>
        e == IF range THEN m.end ELSE n.end
    IN  IF CharAt(s, e) = "," THEN term \o Denoted(s, e + 1) ELSE term

HasTerms == last.op = "init" /\ LastOption # NULL /\ LastOption # << >>
                /\ WellFormed(LastOption)

\* C16: for a well-formed option the two passes agree: the count of
\* get_sector_count is the number of slots add_bad_sectors stores to, these
\* are the slots 0..count-1 and no other, and the entries are the sectors
\* the terms denote, in order, every range N-M expanded to N, N+1, ..., M.
C16_ParsingPassesAgree ==
    HasTerms =>
        LET stores == add_bad_sectors(LastOption, 1, 0)
            count == get_sector_count(LastOption, 1)
        IN  /\ count = Len(Denoted(LastOption, 1))
            /\ {stores[k].idx : k \in 1..Len(stores)} = 0..(count - 1)
            /\ Len(stores) = count
            /\ phase = "serving"
            /\ bad_sector_count = count
            /\ Array(CurrentStore) = Denoted(LastOption, 1)

\* a single sector followed by a range of three sectors or more
C16_Witness ==
    /\ HasTerms
    /\ "," \in Range(LastOption) /\ "-" \in Range(LastOption)
    /\ LastOption[2] = ","
    /\ bad_sector_count >= 4
    /\ Array(CurrentStore)[bad_sector_count] = Array(CurrentStore)[2] + bad_sector_count - 2

\* C17: a read does not change the fault state: whether it returns data,
\* zero bytes or a device fault, the list (its contents and its count) and
\* reserve_sectors are after the read what they were before it.
C17_ReadChangesNothing ==
    last.op = "read" =>
        /\ CurrentStore = last.pre
        /\ Array(CurrentStore) = Array(last.pre)
        /\ bad_sector_count = last.pre.bad_sector_count
        /\ reserve_sectors = last.pre.reserve_sectors

\* a faulting read of a sector that a write would have repaired
C17_Witness ==
    /\ last.op = "read" /\ Fault
    /\ last.pre.reserve_sectors > 0
    /\ LastBadScanned # {}
    /\ BadSet(CurrentStore) = BadSet(last.pre)
    /\ session.repairs > 0

\* C18: the device size of the bounds checks is taken from the backing
\* file at most once in a session and is the same for every request,
\* whatever the size of the file at the first request (0 included) and
\* whatever happens to the file between requests.
C18_DeviceSizeCachedOnce ==
    phase = "serving" =>
        /\ session.stats <= 1
        /\ Cardinality(session.lens) <= 1

\* a step taken with the reserve used up leaves the list and the reserve
\* as they are
FrozenWhenExhausted ==
    (phase = "serving" /\ reserve_sectors = 0)
    => /\ reserve_sectors' = 0
       /\ heap' = heap
       /\ bad_sectors' = bad_sectors
       /\ bad_sector_count' = bad_sector_count

\* a write that found the reserve used up and a bad sector in its range
\* has faulted without a call of pwrite
ExhaustedWriteFaults ==
    (last.op = "write" /\ LastInDevice /\ last.pre.reserve_sectors = 0
        /\ LastBadScanned # {})
    => (Fault /\ last.io.call = "none" /\ last.repaired = << >>)

\* C19: once reserve_sectors is 0, whether used up by repairs or left at
\* the default, under any further sequence of reads and writes the list
\* never changes again, reserve_sectors stays 0, and every write whose
\* scanned range holds a bad sector returns a device fault without calling
\* pwrite.
C19_ExhaustionIsStable ==
    [](ExhaustedWriteFaults) /\ [][FrozenWhenExhausted]_vars

\* a write faults after the repairs of the session have used up a reserve
\* that was configured
C19_Witness ==
    /\ last.op = "write" /\ LastInDevice /\ Fault
    /\ last.pre.reserve_sectors = 0
    /\ reserve_sectors = 0
    /\ session.reserve0 > 0
    /\ last.repaired = << >>
    /\ LastBadScanned # {}

=============================================================================
